---- MODULE Spec2Model ----
(***************************************************************************)
(* A model of the NODE coffee analysis chat modal (chat-modal component,   *)
(* src/unnamed/part_000) and of the product view that parses the analysis  *)
(* text (src/app/components/ui/coffee-product-view.tsx).                   *)
(*                                                                         *)
(* Spec          the chat modal: uploads, form submission, chat requests   *)
(* SpecUpload    the upload area alone; SpecUploadFair: every read ends    *)
(* SpecCompress  compressImage's canvas dimensions                         *)
(* SpecParse     parseAnalysis / extractSection and the product view       *)
(***************************************************************************)
EXTENDS Integers, Sequences, FiniteSets, TLC

VARIABLES
    uploadedImages,  \* useState<File[]>: the files waiting to be sent
    alert,           \* the last alert() dialog shown
    uploads,         \* activations of handleDrop / handleFileSelect
    input,           \* useChat's input text
    error,           \* useState<string | null>: the error banner
    analysisResult,  \* useState<string>: the text the product view parses
    messages,        \* useChat's messages
    isLoading,       \* useChat's isLoading
    subs,            \* activations of handleFormSubmit
    img,             \* compressImage: the image's width and height, <<0, 0>> until it has loaded
    canvas,          \* compressImage: the canvas' width and height, 300 x 150 when created
    analysis,        \* CoffeeProductView: the analysis prop
    view,            \* CoffeeProductView: what each field shows
    events           \* the number of user events so far

modalVars == <<uploadedImages, alert, uploads, input, error, analysisResult,
               messages, isLoading, subs>>
compressVars == <<img, canvas>>
parseVars == <<analysis, view>>
vars == <<modalVars, compressVars, parseVars, events>>

---------------------------------------------------------------------------
(* Bounds of the model *)

\* activations of handleDrop / handleFileSelect in one run
MaxUploads == 2
\* activations of handleFormSubmit in one run
MaxSubmits == 2
\* user events (drop, file dialog, remove, typing, submit, dismiss) in one run
MaxEvents == 4
\* image sides run up to MaxScale times maxSize, DimSpread pixels around each multiple
MaxScale == 3
DimSpread == 2

---------------------------------------------------------------------------
(* Files *)

MAX_FILE_SIZE == 10 * 1024 * 1024
MAX_FILES == 5
ALLOWED_MIME_TYPES == {"image/jpeg", "image/jpg", "image/png", "image/webp"}

\* The files a user can offer: three real images (one of exactly the
\* maximal size), an image that is too large, a PNG-typed file that is no
\* image, a WEBP-typed file shorter than 12 bytes, and a PDF.
FileNames == {"a.jpg", "b.png", "c.webp", "big.jpg", "fake.png", "short.webp", "doc.pdf"}

FileType(f) ==
    CASE f = "a.jpg" -> "image/jpeg"
      [] f = "b.png" -> "image/png"
      [] f = "c.webp" -> "image/webp"
      [] f = "big.jpg" -> "image/jpeg"
      [] f = "fake.png" -> "image/png"
      [] f = "short.webp" -> "image/webp"
      [] OTHER -> "application/pdf"

FileSize(f) ==
    CASE f = "a.jpg" -> 204800
      [] f = "b.png" -> MAX_FILE_SIZE
      [] f = "c.webp" -> 1
      [] f = "big.jpg" -> MAX_FILE_SIZE + 1
      [] f = "fake.png" -> 4096
      [] f = "short.webp" -> 4
      [] OTHER -> 4096

\* file.slice(0, 12): the first (at most) 12 bytes of the file
FileHead(f) ==
    CASE f = "a.jpg" -> <<255, 216, 255, 224, 0, 16, 74, 70, 73, 70, 0, 1>>
      [] f = "b.png" -> <<137, 80, 78, 71, 13, 10, 26, 10, 0, 0, 0, 13>>
      [] f = "c.webp" -> <<82, 73, 70, 70, 36, 0, 0, 0, 87, 69, 66, 80>>
      [] f = "big.jpg" -> <<255, 216, 255, 224, 0, 16, 74, 70, 73, 70, 0, 1>>
      [] f = "fake.png" -> <<60, 104, 116, 109, 108, 62, 60, 98, 111, 100, 121, 62>>
      [] f = "short.webp" -> <<82, 73, 70, 70>>
      [] OTHER -> <<37, 80, 68, 70, 45, 49, 46, 55, 10, 37, 226, 227>>

\* uint8Array[i]: the byte at (0-based) index i, -1 for undefined
ByteAt(bytes, i) == IF i + 1 <= Len(bytes) THEN bytes[i + 1] ELSE -1

isJPEG(b) == ByteAt(b, 0) = 255 /\ ByteAt(b, 1) = 216 /\ ByteAt(b, 2) = 255
isPNG(b) == ByteAt(b, 0) = 137 /\ ByteAt(b, 1) = 80 /\ ByteAt(b, 2) = 78 /\ ByteAt(b, 3) = 71
isWEBP(b) == ByteAt(b, 8) = 87 /\ ByteAt(b, 9) = 69 /\ ByteAt(b, 10) = 66 /\ ByteAt(b, 11) = 80

\* validateFile's checks before it reads the file: size, then MIME type
SizeBelowMaxChecks(f) == FileSize(f) < MAX_FILE_SIZE /\ FileType(f) \in ALLOWED_MIME_TYPES
PassesSyncChecks(f) == ~(FileSize(f) > MAX_FILE_SIZE) /\ FileType(f) \in ALLOWED_MIME_TYPES

\* reader.onload: the magic-number check on the bytes read
MagicNoCheck(f) == TRUE
PassesMagic(f) == isJPEG(FileHead(f)) \/ isPNG(FileHead(f)) \/ isWEBP(FileHead(f))

\* What validateFile resolves to; readOk = FALSE is reader.onerror
validateFile(f, readOk) == PassesSyncChecks(f) /\ readOk /\ PassesMagic(f)

\* Array.filter(file => ALLOWED_MIME_TYPES.includes(file.type))
RECURSIVE FilterAllowed(_)
FilterAllowed(files) ==
    IF files = <<>> THEN <<>>
    ELSE IF FileType(Head(files)) \in ALLOWED_MIME_TYPES
         THEN <<Head(files)>> \o FilterAllowed(Tail(files))
         ELSE FilterAllowed(Tail(files))

\* The batches of files a drop or a file dialog delivers
Batches ==
    { <<"a.jpg">>, <<"b.png", "c.webp">>, <<"a.jpg", "fake.png", "c.webp">>,
      <<"doc.pdf", "b.png">>, <<"big.jpg", "short.webp">>, <<"doc.pdf">>,
      <<"a.jpg", "b.png", "c.webp">>,
      <<"a.jpg", "b.png", "c.webp", "a.jpg", "b.png", "c.webp">> }

---------------------------------------------------------------------------
(* alert() dialogs *)

NoAlert == [kind |-> "none", file |-> ""]
MaxFilesAlert == [kind |-> "max", file |-> ""]
RejectedAlert(f) == [kind |-> "rejected", file |-> f]

---------------------------------------------------------------------------
(* handleDrop / handleFileSelect *)

UploadIds == 1..MaxUploads

IdleUpload == [pc |-> "idle", batch |-> <<>>, files |-> <<>>, i |-> 0, validFiles |-> <<>>]
\* a handler that has returned is remembered with the batch it was given
DoneUpload(batch) == [IdleUpload EXCEPT !.pc = "done", !.batch = batch]
RejectedUpload(batch) == [IdleUpload EXCEPT !.pc = "rejected", !.batch = batch]

\* The check of the file limit. count is uploadedImages.length of the render
\* the handler closes over: the handler is re-created whenever the length
\* changes, so an event is handled with the length of the current state.
NoCountOverLimit(count, n) == n > MAX_FILES
OverLimit(count, n) == count + n > MAX_FILES

\* The for-loop from file i on, up to the next await that yields to the
\* event loop (a FileReader read): a file failing validateFile's size or
\* type check resolves false at once and is alerted in the same task.
\* Returns <<i', last alert>>; i' = Len(files) + 1 when the loop is over.
RECURSIVE RunLoop(_, _, _)
RunLoop(files, i, al) ==
    IF i > Len(files) THEN <<i, al>>
    ELSE IF PassesSyncChecks(files[i]) THEN <<i, al>>
    ELSE RunLoop(files, i + 1, RejectedAlert(files[i]))

\* The handler from its loop at file i on: either it waits for the read of
\* a file, or the loop is over and it appends the valid files.
ContinueUpload(u, rec, i, valid, al) ==
    LET r == RunLoop(rec.files, i, al) IN
    /\ alert' = r[2]
    /\ IF r[1] > Len(rec.files)
       THEN /\ uploads' = [uploads EXCEPT ![u] = DoneUpload(rec.batch)]
            /\ uploadedImages' = IF Len(valid) > 0 THEN uploadedImages \o valid ELSE uploadedImages
       ELSE /\ uploads' = [uploads EXCEPT ![u] = [rec EXCEPT !.pc = "validating", !.i = r[1], !.validFiles = valid]]
            /\ UNCHANGED uploadedImages

\* The handler up to its first await
StartUpload(u, batch) ==
    LET files == FilterAllowed(batch)
        rec == [pc |-> "validating", batch |-> batch, files |-> files, i |-> 1, validFiles |-> <<>>]
    IN
    /\ uploads[u].pc = "idle"
    /\ \A v \in UploadIds : v < u => uploads[v].pc # "idle"
    /\ IF OverLimit(Len(uploadedImages), Len(files))
       THEN /\ alert' = MaxFilesAlert
            /\ uploads' = [uploads EXCEPT ![u] = RejectedUpload(batch)]
            /\ UNCHANGED uploadedImages
       ELSE ContinueUpload(u, rec, 1, <<>>, alert)
    /\ UNCHANGED <<input, error, analysisResult, messages, isLoading, subs>>

HandleDrop(u, batch) == StartUpload(u, batch)

HandleFileSelect(u, batch) == StartUpload(u, batch)

\* validateFile's promise for files[i] resolves (reader.onload or
\* reader.onerror) and the handler runs on from its await
ValidateResolves(u, readOk) ==
    LET rec == uploads[u]
        f == rec.files[rec.i]
    IN
    /\ rec.pc = "validating"
    /\ IF validateFile(f, readOk)
       THEN ContinueUpload(u, rec, rec.i + 1, Append(rec.validFiles, f), alert)
       ELSE ContinueUpload(u, rec, rec.i + 1, rec.validFiles, RejectedAlert(f))
    /\ UNCHANGED <<input, error, analysisResult, messages, isLoading, subs>>

\* setUploadedImages(prev => prev.filter((_, i) => i !== index)); index is 0-based
removeImage(index) ==
    /\ index + 1 \in 1..Len(uploadedImages)
    /\ uploadedImages' = [k \in 1..(Len(uploadedImages) - 1) |->
                             IF k < index + 1 THEN uploadedImages[k] ELSE uploadedImages[k + 1]]
    /\ UNCHANGED <<alert, uploads, input, error, analysisResult, messages, isLoading, subs>>

---------------------------------------------------------------------------
(* Texts: a text is a sequence of tokens *)

COFFEE_ANALYSIS_PROMPT == <<"COFFEE_ANALYSIS_PROMPT">>
FOLLOW_UP_ANALYSIS_PROMPT == <<"FOLLOW_UP_ANALYSIS_PROMPT">>

IsSpace(c) == c \in {" ", "\n"}

\* String.prototype.trim
RECURSIVE TrimLeft(_)
TrimLeft(t) == IF t # <<>> /\ IsSpace(Head(t)) THEN TrimLeft(Tail(t)) ELSE t
RECURSIVE TrimRight(_)
TrimRight(t) == IF t # <<>> /\ IsSpace(t[Len(t)]) THEN TrimRight(SubSeq(t, 1, Len(t) - 1)) ELSE t
Trim(t) == TrimRight(TrimLeft(t))

\* !input.trim()
Blank(t) == Trim(t) = <<>>

\* String.prototype.includes
Includes(t, pat) ==
    \E k \in 0..(Len(t) - Len(pat)) : SubSeq(t, k + 1, k + Len(pat)) = pat

\* what the user types into the input
Inputs == { <<>>, <<" ">>, <<"h", "i">> }

\* the content of the assistant's answer to the first message of a
\* submission and to the follow-up prompt
FirstContents == { <<>>, <<"A">> }
FollowUpContents == { <<>>, <<"B">> }

\* error.message of the errors the chat transport reports
ErrorMessages ==
    { <<"4", "2", "9">>, <<"5", "0", "3">>, <<"5", "0", "3", " ", "4", "2", "9">>,
      <<"x", "4", "2", "9", "x">>, <<"4", "2", " ", "9">>, <<"5", "0", "0">>, <<>> }

---------------------------------------------------------------------------
(* useChat: onError, onFinish, append *)

NoError == "null"
TooManyRequests == "Too many requests. Please wait a minute before trying again."
ServiceUnavailable == "Service temporarily unavailable. Please try again later."
GenericError == "An error occurred. Please try again."

\* onError: the banner chosen by error.message
onErrorChecks503First(message) ==
    IF Includes(message, <<"5", "0", "3">>) THEN ServiceUnavailable
    ELSE IF Includes(message, <<"4", "2", "9">>) THEN TooManyRequests
    ELSE GenericError
onError(message) ==
    IF Includes(message, <<"4", "2", "9">>) THEN TooManyRequests
    ELSE IF Includes(message, <<"5", "0", "3">>) THEN ServiceUnavailable
    ELSE GenericError

\* onFinish: images is the uploadedImages of the render whose append issued
\* the request (useChat binds append to the callbacks of its render)
onFinishOfCurrentRender(images, content) ==
    IF content # <<>> /\ Len(uploadedImages) > 0 THEN content ELSE analysisResult
onFinish(images, content) ==
    IF content # <<>> /\ Len(images) > 0 THEN content ELSE analysisResult

UserMessage(s, content, attachments) ==
    [role |-> "user", sub |-> s, content |-> content, attachments |-> attachments]
AssistantMessage(s, content) ==
    [role |-> "assistant", sub |-> s, content |-> content, attachments |-> <<>>]

\* append(message): the message joins the chat and the request starts
append(message) ==
    /\ messages' = Append(messages, message)
    /\ isLoading' = TRUE

---------------------------------------------------------------------------
(* handleFormSubmit *)

SubmitIds == 1..MaxSubmits

IdleSubmit == [pc |-> "idle", images |-> <<>>, input |-> <<>>]

\* the attachments built from the compressed images, in the files' order
AttachmentsOfFileType(images) ==
    [k \in 1..Len(images) |->
        [name |-> images[k], contentType |-> FileType(images[k]), url |-> images[k]]]
Attachments(images) ==
    [k \in 1..Len(images) |->
        [name |-> images[k], contentType |-> "image/jpeg", url |-> images[k]]]

\* the engineered prompt if only images were uploaded
MessageText(inp, hasImages) ==
    IF Blank(inp) /\ hasImages THEN COFFEE_ANALYSIS_PROMPT ELSE inp

\* images were uploaded and the input is blank: the follow-up is scheduled
FollowUpWhenTyped(inp, hasImages) == hasImages /\ ~Blank(inp)
WantsFollowUp(inp, hasImages) == hasImages /\ Blank(inp)

\* the Send button and the text input are disabled; handleFormSubmit's own guard
SubmitDisabled == isLoading \/ (Blank(input) /\ Len(uploadedImages) = 0)

\* onSubmit: the handler up to its first await. With images it awaits their
\* compression; without, it calls append at once.
handleFormSubmit(s) ==
    /\ ~SubmitDisabled
    /\ subs[s].pc = "idle"
    /\ \A v \in SubmitIds : v < s => subs[v].pc # "idle"
    /\ IF Len(uploadedImages) > 0
       THEN /\ subs' = [subs EXCEPT ![s] = [pc |-> "compressing", images |-> uploadedImages, input |-> input]]
            /\ UNCHANGED <<messages, isLoading>>
       ELSE /\ subs' = [subs EXCEPT ![s] = [pc |-> "append", images |-> uploadedImages, input |-> input]]
            /\ append(UserMessage(s, MessageText(input, FALSE), <<>>))
    /\ UNCHANGED <<uploadedImages, alert, uploads, input, error, analysisResult>>

\* Promise.all(imagePromises) resolves: the handler calls append
CompressResolves(s) ==
    /\ subs[s].pc = "compressing"
    /\ subs' = [subs EXCEPT ![s].pc = "append"]
    /\ append(UserMessage(s, MessageText(subs[s].input, TRUE), Attachments(subs[s].images)))
    /\ UNCHANGED <<uploadedImages, alert, uploads, input, error, analysisResult>>

\* The handler after `await append(...)`: the follow-up timer, then the form is cleared
AfterAppend(s) ==
    /\ subs' = [subs EXCEPT ![s].pc =
                  IF WantsFollowUp(subs[s].input, Len(subs[s].images) > 0) THEN "timer" ELSE "done"]
    /\ uploadedImages' = <<>>
    /\ input' = <<>>

\* The request of the first append ends with a response: onFinish, then the
\* handler runs on
AppendFinishes(s, content) ==
    /\ subs[s].pc = "append"
    /\ messages' = Append(messages, AssistantMessage(s, content))
    /\ isLoading' = FALSE
    /\ analysisResult' = onFinish(subs[s].images, content)
    /\ AfterAppend(s)
    /\ UNCHANGED <<alert, uploads, error>>

\* The request of the first append fails: onError, then the handler runs on
AppendFails(s, message) ==
    /\ subs[s].pc = "append"
    /\ error' = onError(message)
    /\ isLoading' = FALSE
    /\ AfterAppend(s)
    /\ UNCHANGED <<alert, uploads, analysisResult, messages>>

\* setTimeout(..., 100) fires: the follow-up prompt is appended
TimerFires(s) ==
    /\ subs[s].pc = "timer"
    /\ subs' = [subs EXCEPT ![s].pc = "followup"]
    /\ append(UserMessage(s, FOLLOW_UP_ANALYSIS_PROMPT, <<>>))
    /\ UNCHANGED <<uploadedImages, alert, uploads, input, error, analysisResult>>

\* The follow-up request ends with a response
FollowUpFinishes(s, content) ==
    /\ subs[s].pc = "followup"
    /\ subs' = [subs EXCEPT ![s].pc = "done"]
    /\ messages' = Append(messages, AssistantMessage(s, content))
    /\ isLoading' = FALSE
    /\ analysisResult' = onFinish(subs[s].images, content)
    /\ UNCHANGED <<uploadedImages, alert, uploads, input, error>>

\* The follow-up request fails
FollowUpFails(s, message) ==
    /\ subs[s].pc = "followup"
    /\ subs' = [subs EXCEPT ![s].pc = "done"]
    /\ error' = onError(message)
    /\ isLoading' = FALSE
    /\ UNCHANGED <<uploadedImages, alert, uploads, input, analysisResult, messages>>

\* onChange of the text input, which is disabled while isLoading
handleInputChange(text) ==
    /\ ~isLoading
    /\ input' = text
    /\ UNCHANGED <<uploadedImages, alert, uploads, error, analysisResult, messages, isLoading, subs>>

\* the banner's close button: setError(null)
DismissError ==
    /\ error # NoError
    /\ error' = NoError
    /\ UNCHANGED <<uploadedImages, alert, uploads, input, analysisResult, messages, isLoading, subs>>

---------------------------------------------------------------------------
(* The chat modal *)

Init ==
    /\ uploadedImages = <<>>
    /\ alert = NoAlert
    /\ uploads = [u \in UploadIds |-> IdleUpload]
    /\ input = <<>>
    /\ error = NoError
    /\ analysisResult = <<>>
    /\ messages = <<>>
    /\ isLoading = FALSE
    /\ subs = [s \in SubmitIds |-> IdleSubmit]
    /\ img = <<0, 0>>
    /\ canvas = <<300, 150>>
    /\ analysis = <<>>
    /\ view = <<>>
    /\ events = 0

\* a step the user takes, and a step of the event loop
UserEvent == events < MaxEvents /\ events' = events + 1 /\ UNCHANGED <<compressVars, parseVars>>
Completion == UNCHANGED <<events, compressVars, parseVars>>

\* the batch offered while the chat is in use; SpecUpload explores the others
ChatBatches == { <<"a.jpg", "b.png">> }

Next ==
    \/ \E u \in UploadIds, b \in ChatBatches : HandleDrop(u, b) /\ UserEvent
    \/ \E u \in UploadIds, b \in ChatBatches : HandleFileSelect(u, b) /\ UserEvent
    \/ \E u \in UploadIds : ValidateResolves(u, TRUE) /\ Completion
    \/ \E k \in 0..(2 * MAX_FILES) : removeImage(k) /\ UserEvent
    \/ \E t \in Inputs : handleInputChange(t) /\ UserEvent
    \/ \E s \in SubmitIds : handleFormSubmit(s) /\ UserEvent
    \/ \E s \in SubmitIds : CompressResolves(s) /\ Completion
    \/ \E s \in SubmitIds, c \in FirstContents : AppendFinishes(s, c) /\ Completion
    \/ \E s \in SubmitIds, m \in ErrorMessages : AppendFails(s, m) /\ Completion
    \/ \E s \in SubmitIds : TimerFires(s) /\ Completion
    \/ \E s \in SubmitIds, c \in FollowUpContents : FollowUpFinishes(s, c) /\ Completion
    \/ \E s \in SubmitIds, m \in ErrorMessages : FollowUpFails(s, m) /\ Completion
    \/ DismissError /\ UserEvent

Spec == Init /\ [][Next]_vars

---------------------------------------------------------------------------
(* The upload area alone: drops, file dialogs and removals *)

NextUpload ==
    \/ \E u \in UploadIds, b \in Batches : HandleDrop(u, b) /\ Completion
    \/ \E u \in UploadIds, b \in Batches : HandleFileSelect(u, b) /\ Completion
    \/ \E u \in UploadIds, ok \in BOOLEAN : ValidateResolves(u, ok) /\ Completion
    \/ \E k \in 0..(2 * MAX_FILES) : removeImage(k) /\ Completion

SpecUpload == Init /\ [][NextUpload]_vars

---------------------------------------------------------------------------
(* compressImage *)

maxSize == 800

\* the sides of the images that are compressed
Dims == {1} \cup UNION { (k * maxSize - DimSpread)..(k * maxSize + DimSpread) : k \in 1..MaxScale }

\* A number of the script is kept as a fraction <<numerator, denominator>>
Whole(n) == <<n, 1>>
\* canvas.width = x, canvas.height = x: the conversion to unsigned long truncates
ToUnsignedLong(q) == q[1] \div q[2]

\* img.onload: the new dimensions (max 800px width/height), <<width, height>>
LandscapeOnlyDimensions(width, height) ==
    IF width > maxSize THEN << Whole(maxSize), <<height * maxSize, width>> >>
    ELSE << Whole(width), Whole(height) >>
NewDimensions(width, height) ==
    IF width > height
    THEN IF width > maxSize
         THEN << Whole(maxSize), <<height * maxSize, width>> >>
         ELSE << Whole(width), Whole(height) >>
    ELSE IF height > maxSize
         THEN << <<width * maxSize, height>>, Whole(maxSize) >>
         ELSE << Whole(width), Whole(height) >>

\* The image of a file loads with the given sides and img.onload sizes the canvas
compressImage(width, height) ==
    /\ img = <<0, 0>>
    /\ img' = <<width, height>>
    /\ canvas' = << ToUnsignedLong(NewDimensions(width, height)[1]),
                    ToUnsignedLong(NewDimensions(width, height)[2]) >>
    /\ UNCHANGED <<modalVars, parseVars, events>>

NextCompress == \E w \in Dims, h \in Dims : compressImage(w, h)

SpecCompress == Init /\ [][NextCompress]_vars

Max(a, b) == IF a >= b THEN a ELSE b
Abs(a) == IF a >= 0 THEN a ELSE -a

\* C7: the canvas is never larger than 800 on either side; an image within
\* 800 x 800 keeps its dimensions; otherwise the larger side becomes 800
\* and the other side is scaled by the same factor, up to less than a pixel.
C7_Downscale ==
    img # <<0, 0>> =>
        LET w == img[1]
            h == img[2]
            cw == canvas[1]
            ch == canvas[2]
        IN
        /\ Max(cw, ch) <= 800
        /\ Max(w, h) <= 800 => <<cw, ch>> = <<w, h>>
        /\ (Max(w, h) > 800 /\ w >= h) => (cw = 800 /\ Abs(ch * w - h * 800) < w)
        /\ (Max(w, h) > 800 /\ h >= w) => (ch = 800 /\ Abs(cw * h - w * 800) < h)

\* C7's case: a portrait image larger than 800 was scaled down, its width
\* rounded
C7_Witness ==
    /\ img[2] > 800
    /\ img[2] > img[1]
    /\ img[1] > 1
    /\ canvas[2] = 800
    /\ canvas[1] * img[2] # img[1] * 800

---------------------------------------------------------------------------
(* Claims about the upload area *)

Range(seq) == { seq[k] : k \in 1..Len(seq) }

HasSignature(h) ==
    \/ Len(h) >= 3 /\ SubSeq(h, 1, 3) = <<255, 216, 255>>
    \/ Len(h) >= 4 /\ SubSeq(h, 1, 4) = <<137, 80, 78, 71>>
    \/ Len(h) >= 12 /\ SubSeq(h, 9, 12) = <<87, 69, 66, 80>>

\* C1: every file held in uploadedImages is at most 10 MiB large, has an
\* allowed MIME type and carries a JPEG, PNG or WEBP signature in its first
\* 12 bytes.
C1_UploadedFilesValid ==
    \A k \in 1..Len(uploadedImages) :
        LET f == uploadedImages[k] IN
        /\ FileSize(f) <= 10 * 1024 * 1024
        /\ FileType(f) \in {"image/jpeg", "image/jpg", "image/png", "image/webp"}
        /\ HasSignature(FileHead(f))

\* C1's case: files of two batches are held, one of each signature, after
\* a file of a batch was rejected
C1_Witness ==
    /\ Range(uploadedImages) = {"a.jpg", "b.png", "c.webp"}
    /\ alert = RejectedAlert("fake.png")
    /\ \A u \in UploadIds : uploads[u].pc = "done"

\* C2: uploadedImages never holds more than MAX_FILES files.
C2_AtMostMaxFiles == Len(uploadedImages) <= MAX_FILES

AllowedCount(batch) == Cardinality({ k \in 1..Len(batch) : FileType(batch[k]) \in ALLOWED_MIME_TYPES })

\* C9: a drop or file dialog whose MIME-allowed files, added to the files
\* held, exceed MAX_FILES is rejected whole: the limit alert is shown,
\* uploadedImages is unchanged, and the handler validates and adds nothing
\* afterwards.
C9_OverLimitRejected ==
    [][\A u \in UploadIds :
        /\ (/\ uploads[u].pc = "idle"
            /\ uploads'[u].pc # "idle"
            /\ Len(uploadedImages) + AllowedCount(uploads'[u].batch) > MAX_FILES)
           => (/\ uploads'[u].pc = "rejected"
               /\ uploads'[u].i = 0
               /\ uploads'[u].validFiles = <<>>
               /\ alert' = MaxFilesAlert
               /\ uploadedImages' = uploadedImages)
        /\ uploads[u].pc = "rejected" => uploads'[u] = uploads[u]]_vars

\* C9's case: a batch within the limit by itself was rejected because of
\* the files already held
C9_Witness ==
    \E u \in UploadIds :
        /\ uploads[u].pc = "rejected"
        /\ AllowedCount(uploads[u].batch) <= MAX_FILES
        /\ Len(uploadedImages) > 0
        /\ alert = MaxFilesAlert

---------------------------------------------------------------------------
(* Claims about form submission and the chat *)

AllSpaces(t) == \A k \in 1..Len(t) : t[k] \in {" ", "\n"}

\* a submission of images with a blank input
ImagesOnly(s) == subs[s].pc # "idle" /\ Len(subs[s].images) > 0 /\ AllSpaces(subs[s].input)

UserMessagesOf(s) == { k \in 1..Len(messages) : messages[k].role = "user" /\ messages[k].sub = s }
FirstMessagesOf(s) == { k \in UserMessagesOf(s) : \A j \in UserMessagesOf(s) : k <= j }
FollowUpsOf(s) == { k \in UserMessagesOf(s) : messages[k].content = FOLLOW_UP_ANALYSIS_PROMPT }
PromptsOf(s) ==
    { k \in UserMessagesOf(s) :
        messages[k].content = COFFEE_ANALYSIS_PROMPT /\ messages[k].attachments # <<>> }

\* C4: a submission takes the images and the input of the form as they are
\* when it is submitted; if there are images and the input is blank, the
\* message it appends has COFFEE_ANALYSIS_PROMPT as content and one
\* attachment per image, in upload order, with the file's name and
\* contentType image/jpeg.
C4_ImagesOnlyMessage ==
    /\ \A s \in SubmitIds :
          (ImagesOnly(s) /\ subs[s].pc # "compressing") =>
             /\ FirstMessagesOf(s) # {}
             /\ \A k \in FirstMessagesOf(s) :
                   /\ messages[k].content = COFFEE_ANALYSIS_PROMPT
                   /\ Len(messages[k].attachments) = Len(subs[s].images)
                   /\ \A j \in 1..Len(subs[s].images) :
                         /\ messages[k].attachments[j].name = subs[s].images[j]
                         /\ messages[k].attachments[j].contentType = "image/jpeg"
    /\ \A s \in SubmitIds :
          subs[s].pc = "compressing" => subs[s].images # <<>> /\ UserMessagesOf(s) = {}

\* C4's case: two images were sent with a whitespace-only input
C4_Witness ==
    \E s \in SubmitIds :
        /\ subs[s].pc = "append"
        /\ subs[s].images = <<"a.jpg", "b.png">>
        /\ subs[s].input = <<" ">>
        /\ messages # <<>>
        /\ messages[Len(messages)].sub = s

\* C5: for an images-only submission the follow-up prompt is appended at
\* most once, without attachments, after the submission's first message
\* (COFFEE_ANALYSIS_PROMPT with the images) and only once the append of that
\* message has completed; it has been appended once the timer has fired.
C5_FollowUpOnceAfterFirst ==
    \A s \in SubmitIds :
        ImagesOnly(s) =>
            /\ Cardinality(FollowUpsOf(s)) <= 1
            /\ \A k \in FollowUpsOf(s) :
                  /\ messages[k].attachments = <<>>
                  /\ PromptsOf(s) # {}
                  /\ \A j \in PromptsOf(s) : j < k
                  /\ subs[s].pc \notin {"compressing", "append", "timer"}
            /\ subs[s].pc \in {"followup", "done"} => Cardinality(FollowUpsOf(s)) = 1
            /\ subs[s].pc \in {"compressing", "append", "timer"} => FollowUpsOf(s) = {}

\* C5's case: an images-only submission has run to its end
C5_Witness ==
    \E s \in SubmitIds :
        /\ ImagesOnly(s)
        /\ subs[s].pc = "done"
        /\ Cardinality(FollowUpsOf(s)) = 1
        /\ Cardinality(UserMessagesOf(s)) = 2

AnswersOf(s) ==
    { k \in 1..Len(messages) :
        messages[k].role = "assistant" /\ messages[k].sub = s /\ messages[k].content # <<>> }

\* C6: when the answer to the follow-up prompt of an images-only submission
\* finishes with non-empty content, after the answer to its first message
\* finished with non-empty content, analysisResult becomes the content of
\* the follow-up answer.
C6_AnalysisIsFollowUpAnswer ==
    [][\A s \in SubmitIds :
        (/\ ImagesOnly(s)
         /\ subs[s].pc = "followup"
         /\ subs'[s].pc = "done"
         /\ AnswersOf(s) # {}
         /\ Len(messages') = Len(messages) + 1
         /\ messages'[Len(messages')].content # <<>>)
        => analysisResult' = messages'[Len(messages')].content]_vars

\* C6's case: both answers of a submission finished with different
\* non-empty contents and the form has been cleared
C6_Witness ==
    \E s \in SubmitIds :
        /\ ImagesOnly(s)
        /\ subs[s].pc = "done"
        /\ uploadedImages = <<>>
        /\ Cardinality(AnswersOf(s)) = 2
        /\ messages[Len(messages)] = AssistantMessage(s, <<"B">>)
        /\ analysisResult = <<"B">>

Has429(m) == \E k \in 1..(Len(m) - 2) : m[k] = "4" /\ m[k + 1] = "2" /\ m[k + 2] = "9"
Has503(m) == \E k \in 1..(Len(m) - 2) : m[k] = "5" /\ m[k + 1] = "0" /\ m[k + 2] = "3"

\* C10: when a request fails with error message m, the banner becomes the
\* 'Too many requests' text if m contains 429, else the 'Service
\* temporarily unavailable' text if m contains 503, else the generic text;
\* it is not null after the error callback.
C10_ErrorBanner ==
    [][\A s \in SubmitIds, m \in ErrorMessages :
        (AppendFails(s, m) \/ FollowUpFails(s, m)) =>
            /\ error' # "null"
            /\ error' = IF Has429(m)
                           THEN "Too many requests. Please wait a minute before trying again."
                        ELSE IF Has503(m)
                           THEN "Service temporarily unavailable. Please try again later."
                        ELSE "An error occurred. Please try again."]_vars

\* C10's case: a request failed and the banner tells that the service is
\* unavailable
C10_Witness ==
    /\ error = ServiceUnavailable
    /\ \E s \in SubmitIds : subs[s].pc \in {"timer", "done"}
    /\ ~isLoading

---------------------------------------------------------------------------
(* The product view: texts *)

\* The analysis text is a sequence of tokens: words, digit runs, single
\* punctuation characters, " " and "\n". The regular expressions of
\* parseAnalysis are matched token by token.

\* words made of one capital letter followed by lower-case letters: [A-Z][a-z]+
CapWords ==
    { "About", "Origin", "Grade", "Sourcing", "Processing", "Method", "Flavor",
      "Profile", "Roast", "Level", "Expert", "Overview", "Primary", "Specific",
      "English", "Volcanic", "Top", "Washed", "Nutty", "Medium", "Buy", "Santa", "Ines" }
\* tokens whose first character is in [A-Z]
StartsUpper(tok) == tok \in CapWords \cup {"BRAZIL"}
\* tokens matching \d+
IsDigits(tok) == tok \in {"0", "3", "03", "5"}

\* the lower-case form of a token (the i flag)
Fold(tok) ==
    CASE tok = "Roast" -> "roast"
      [] tok = "Level" -> "level"
      [] tok = "Profile" -> "profile"
      [] tok = "Primary" -> "primary"
      [] tok = "Specific" -> "specific"
      [] tok = "English" -> "english"
      [] OTHER -> tok

At(t, i) == IF i \in 1..Len(t) THEN t[i] ELSE "$"

\* the first position from i on that holds no white space
RECURSIVE SkipSpaces(_, _)
SkipSpaces(t, i) == IF i <= Len(t) /\ IsSpace(t[i]) THEN SkipSpaces(t, i + 1) ELSE i

\* the position of the first "\n" from i on, Len(t) + 1 if there is none
RECURSIVE LineEnd(_, _)
LineEnd(t, i) == IF i <= Len(t) /\ t[i] # "\n" THEN LineEnd(t, i + 1) ELSE i

\* A pattern of literal tokens and "\\s*" / "\\s+" items, matched at i:
\* the position after the match, 0 if there is none. What follows a
\* white-space item here is a literal or a digit, which no white space
\* matches, or a lazy capture that succeeds from any start: the item takes
\* all the white space there is.
RECURSIVE MatchItems(_, _, _, _)
MatchItems(t, i, pat, fold) ==
    IF pat = <<>> THEN i
    ELSE IF Head(pat) = "\\s*" THEN MatchItems(t, SkipSpaces(t, i), Tail(pat), fold)
    ELSE IF Head(pat) = "\\s+"
         THEN IF IsSpace(At(t, i)) THEN MatchItems(t, SkipSpaces(t, i), Tail(pat), fold) ELSE 0
    ELSE IF i <= Len(t) /\ (IF fold THEN Fold(t[i]) = Head(pat) ELSE t[i] = Head(pat))
         THEN MatchItems(t, i + 1, Tail(pat), fold)
         ELSE 0

NoMatch == <<>>

\* the least position of a non-empty set of positions
Leftmost(positions) == CHOOSE i \in positions : \A j \in positions : i <= j

\* String.prototype.match without the g flag: the match at the leftmost
\* position that has one; matches[i] is the match at i, or NoMatch
FirstMatch(matches) ==
    LET starts == { i \in DOMAIN matches : matches[i] # NoMatch } IN
    IF starts = {} THEN NoMatch ELSE matches[Leftmost(starts)]

\* \s*([^\n]+) at position p: the white space is taken greedily and given
\* back as far as the capture needs; <<capture>> or NoMatch
CaptureLine(t, p) ==
    LET q == SkipSpaces(t, p)
        starts == { k \in p..q : k <= Len(t) /\ t[k] # "\n" }
    IN
    IF starts = {} THEN NoMatch
    ELSE LET k == CHOOSE k \in starts : \A j \in starts : j <= k
         IN << SubSeq(t, k, LineEnd(t, k) - 1) >>

\* /Roast\s*level\s*Profile:\s*(\d+)\/5/i
RoastAt(t, i) ==
    LET p == MatchItems(t, i, <<"roast", "\\s*", "level", "\\s*", "profile", ":", "\\s*">>, TRUE) IN
    IF p # 0 /\ IsDigits(At(t, p)) /\ At(t, p + 1) = "/" /\ At(t, p + 2) = "5"
    THEN << <<t[p]>> >> ELSE NoMatch
roastMatch(t) == FirstMatch([i \in 1..Len(t) |-> RoastAt(t, i)])

\* /Primary\s*coffee\s*origin:\s*([^\n]+)/i
OriginAt(t, i) ==
    LET p == MatchItems(t, i, <<"primary", "\\s*", "coffee", "\\s*", "origin", ":">>, TRUE) IN
    IF p # 0 THEN CaptureLine(t, p) ELSE NoMatch
originMatch(t) == FirstMatch([i \in 1..Len(t) |-> OriginAt(t, i)])

\* /Specific\s*farm\/region\/processing\s*detail:\s*([^\n]+)/i
RegionAt(t, i) ==
    LET p == MatchItems(t, i, <<"specific", "\\s*", "farm", "/", "region", "/", "processing",
                               "\\s*", "detail", ":">>, TRUE) IN
    IF p # 0 THEN CaptureLine(t, p) ELSE NoMatch
regionMatch(t) == FirstMatch([i \in 1..Len(t) |-> RegionAt(t, i)])

\* /English\s*translation:\s*([^\n]+)/i
TastingAt(t, i) ==
    LET p == MatchItems(t, i, <<"english", "\\s*", "translation", ":">>, TRUE) IN
    IF p # 0 THEN CaptureLine(t, p) ELSE NoMatch
tastingMatch(t) == FirstMatch([i \in 1..Len(t) |-> TastingAt(t, i)])

\* (.*?) with the s flag: it ends at the first of the positions at which
\* the lookahead holds (stops); the lookahead's $ holds at the text's end
LazyEnd(t, stops) == IF stops = {} THEN Len(t) + 1 ELSE Leftmost(stops)

\* (?=\n\n|\n[A-Z]|$)
OverviewAhead(t, j) ==
    At(t, j) = "\n" /\ (At(t, j + 1) = "\n" \/ StartsUpper(At(t, j + 1)))

\* /Expert\s*Overview\s*(.*?)(?=\n\n|\n[A-Z]|$)/s
ExpertAt(t, i) ==
    LET p == MatchItems(t, i, <<"Expert", "\\s*", "Overview", "\\s*">>, FALSE) IN
    IF p # 0
    THEN << SubSeq(t, p, LazyEnd(t, { j \in p..Len(t) : OverviewAhead(t, j) }) - 1) >>
    ELSE NoMatch
expertMatch(t) == FirstMatch([i \in 1..Len(t) |-> ExpertAt(t, i)])

\* (?=\n\n[A-Z]|\n[A-Z][a-z]+\s+[A-Z]|$)
SectionAhead(t, j) ==
    \/ At(t, j) = "\n" /\ At(t, j + 1) = "\n" /\ StartsUpper(At(t, j + 2))
    \/ /\ At(t, j) = "\n"
       /\ At(t, j + 1) \in CapWords
       /\ IsSpace(At(t, j + 2))
       /\ StartsUpper(At(t, SkipSpaces(t, j + 2)))

\* new RegExp(`${sectionName}\\s+(.*?)(?=\\n\\n[A-Z]|\\n[A-Z][a-z]+\\s+[A-Z]|$)`, 's')
SectionAt(t, i, sectionName) ==
    LET p == MatchItems(t, i, sectionName \o <<"\\s+">>, FALSE) IN
    IF p # 0
    THEN << SubSeq(t, p, LazyEnd(t, { j \in p..Len(t) : SectionAhead(t, j) }) - 1) >>
    ELSE NoMatch
sectionMatch(t, sectionName) == FirstMatch([i \in 1..Len(t) |-> SectionAt(t, i, sectionName)])

\* match ? match[1].trim() : ""
extractSection(t, sectionName) ==
    LET match == sectionMatch(t, sectionName) IN
    IF match # NoMatch THEN Trim(match[1]) ELSE <<>>

\* parseInt of a digit run, and the numeral React renders for a number
parseInt(tok) == CASE tok = "0" -> 0 [] tok = "3" -> 3 [] tok = "03" -> 3 [] OTHER -> 5
Numeral(n) == CASE n = 0 -> "0" [] n = 3 -> "3" [] OTHER -> "5"

Undefined == [defined |-> FALSE, value |-> <<>>]
Defined(v) == [defined |-> TRUE, value |-> v]

AboutTheOrigin == <<"About", " ", "the", " ", "Origin">>
GradeAndSourcing == <<"Grade", " ", "and", " ", "Sourcing">>
ProcessingMethod == <<"Processing", " ", "Method">>
FlavorProfile == <<"Flavor", " ", "Profile">>
RoastLevel == <<"Roast", " ", "Level">>

\* data.origin: the origin, and the region after " - " if there is one
Origin(t) ==
    IF originMatch(t) # NoMatch
    THEN Defined(Trim(originMatch(t)[1])
                 \o (IF regionMatch(t) # NoMatch
                     THEN <<" ", "-", " ">> \o Trim(regionMatch(t)[1]) ELSE <<>>))
    ELSE Undefined

parseAnalysis(t) ==
    [ roastLevel |-> IF roastMatch(t) # NoMatch
                     THEN [defined |-> TRUE, value |-> parseInt(roastMatch(t)[1][1])]
                     ELSE [defined |-> FALSE, value |-> 0],
      origin |-> Origin(t),
      tastingNotes |-> IF tastingMatch(t) # NoMatch THEN Defined(Trim(tastingMatch(t)[1])) ELSE Undefined,
      expertOverview |-> IF expertMatch(t) # NoMatch THEN Defined(Trim(expertMatch(t)[1])) ELSE Undefined,
      aboutOrigin |-> Defined(extractSection(t, AboutTheOrigin)),
      gradeAndSourcing |-> Defined(extractSection(t, GradeAndSourcing)),
      processingMethod |-> Defined(extractSection(t, ProcessingMethod)),
      flavorProfile |-> Defined(extractSection(t, FlavorProfile)),
      roastLevelDescription |-> Defined(extractSection(t, RoastLevel)) ]

---------------------------------------------------------------------------
(* The product view: what each field shows *)

Placeholder(text) == [kind |-> "placeholder", value |-> <<text>>]
Shown(kind, value) == [kind |-> kind, value |-> value]

\* a string is truthy unless it is undefined or empty
Truthy(d) == d.defined /\ d.value # <<>>

\* tastingNotes.split(','): the pieces between the commas
RECURSIVE Split(_, _)
Split(t, piece) ==
    IF t = <<>> THEN <<piece>>
    ELSE IF Head(t) = "," THEN <<piece>> \o Split(Tail(t), <<>>)
    ELSE Split(Tail(t), Append(piece, Head(t)))

\* ExpertOverviewSection: {overview || "..."}
ExpertOverviewSection(overview) ==
    IF Truthy(overview) THEN Shown("text", overview.value)
    ELSE Placeholder("Expert overview will appear here after analysis.")

\* CoffeeDetailsGrid
RoastLevelCard(roastLevel) ==
    IF roastLevel.defined /\ roastLevel.value # 0
    THEN Shown("roast", <<Numeral(roastLevel.value), "/5">>)
    ELSE Placeholder("Roast level will appear after analysis")
OriginCard(origin) ==
    IF Truthy(origin) THEN Shown("text", origin.value)
    ELSE Placeholder("Origin information will appear after analysis")
TastingNotesCard(tastingNotes) ==
    IF Truthy(tastingNotes)
    THEN Shown("badges", [k \in 1..Len(Split(tastingNotes.value, <<>>)) |->
                             Trim(Split(tastingNotes.value, <<>>)[k])])
    ELSE Placeholder("Tasting notes will appear after analysis")

\* InDepthDescriptionsSection: {section.content || `${section.title} information will appear after analysis.`}
SectionWithoutFallback(title, content) == Shown("text", content.value)
InDepthSection(title, content) ==
    IF Truthy(content) THEN Shown("text", content.value)
    ELSE [kind |-> "placeholder", value |-> title \o <<" ", "information will appear after analysis.">>]

ProductView(data) ==
    [ expertOverview |-> ExpertOverviewSection(data.expertOverview),
      roastLevel |-> RoastLevelCard(data.roastLevel),
      origin |-> OriginCard(data.origin),
      tastingNotes |-> TastingNotesCard(data.tastingNotes),
      aboutOrigin |-> InDepthSection(AboutTheOrigin, data.aboutOrigin),
      gradeAndSourcing |-> InDepthSection(GradeAndSourcing, data.gradeAndSourcing),
      processingMethod |-> InDepthSection(ProcessingMethod, data.processingMethod),
      flavorProfile |-> InDepthSection(FlavorProfile, data.flavorProfile),
      roastLevelDescription |-> InDepthSection(RoastLevel, data.roastLevelDescription) ]

\* CoffeeProductView is rendered, open, with the analysis text t
CoffeeProductView(t) ==
    /\ view = <<>>
    /\ analysis' = t
    /\ view' = <<ProductView(parseAnalysis(t))>>
    /\ UNCHANGED <<modalVars, compressVars, events>>

---------------------------------------------------------------------------
(* The analysis texts the view is rendered with *)

OriginLine == <<"Primary", " ", "coffee", " ", "origin", ":", " ", "BRAZIL">>
RegionLine ==
    <<"Specific", " ", "farm", "/", "region", "/", "processing", " ", "detail", ":", " ",
      "Santa", " ", "Ines">>
TastingLine == <<"English", " ", "translation", ":", " ", "nutty", ",", " ", "sweet">>
RoastLines ==
    { <<"Roast", " ", "level", " ", "Profile", ":", " ", "3", "/", "5">>,
      <<"Roast", " ", "Level", " ", "Profile", ":", " ", "03", "/", "5">>,
      <<"Roast", " ", "level", " ", "Profile", ":", " ", "0", "/", "5">> }

SectionNames == <<AboutTheOrigin, GradeAndSourcing, ProcessingMethod, FlavorProfile, RoastLevel>>
SectionBodies ==
    << <<"Volcanic", " ", "soil">>, <<"Top", " ", "grade">>, <<"Washed", " ", "beans">>,
       <<"Nutty", " ", "cup">>, <<"Medium", " ", "roast">> >>
ExpertOverview == <<"Expert", " ", "Overview">>
ExpertBody == <<"Buy", " ", "it">>

Separators == { <<"\n">>, <<"\n", "\n">> }

\* the blocks joined by the separator
RECURSIVE Join(_, _)
Join(blocks, sep) ==
    IF blocks = <<>> THEN <<>>
    ELSE IF Len(blocks) = 1 THEN blocks[1]
    ELSE blocks[1] \o sep \o Join(Tail(blocks), sep)

\* the elements of seq whose index is in keep
RECURSIVE Pick(_, _, _)
Pick(seq, keep, i) ==
    IF i > Len(seq) THEN <<>>
    ELSE (IF i \in keep THEN <<seq[i]>> ELSE <<>>) \o Pick(seq, keep, i + 1)

\* A text: the detail lines that are present, the sections that are present
\* (heading, hsep, body) and the expert overview, separated by ssep
Text(lines, roast, sections, expert, hsep, ssep) ==
    LET detail == Pick(<<OriginLine, RegionLine, TastingLine>>, lines, 1) \o roast
        blocks == [k \in 1..5 |-> SectionNames[k] \o hsep \o SectionBodies[k]]
        last == IF expert THEN << ExpertOverview \o hsep \o ExpertBody >> ELSE <<>>
    IN Join(detail \o Pick(blocks, sections, 1) \o last, ssep)

Texts ==
    { Text(lines, roast, sections, expert, hsep, ssep) :
        lines \in SUBSET (1..3), roast \in {<<>>} \cup { <<r>> : r \in RoastLines },
        sections \in SUBSET (1..5), expert \in BOOLEAN,
        hsep \in Separators, ssep \in Separators }

NextParse == \E t \in Texts : CoffeeProductView(t)

SpecParse == Init /\ [][NextParse]_vars

---------------------------------------------------------------------------
(* Claims about the product view *)

Rendered == view # <<>>
ShowsPlaceholder(shown, text) == shown.kind = "placeholder" /\ shown.value = text
ShowsText(shown, kind, text) == shown.kind = kind /\ shown.value = text

SectionShown(v, k) ==
    CASE k = 1 -> v.aboutOrigin
      [] k = 2 -> v.gradeAndSourcing
      [] k = 3 -> v.processingMethod
      [] k = 4 -> v.flavorProfile
      [] OTHER -> v.roastLevelDescription

SectionPlaceholder(k) == SectionNames[k] \o <<" ", "information will appear after analysis.">>

\* C3: for each field of the product view, if the regular expression of
\* that field finds no match in the analysis text, the view shows the
\* field's placeholder text; the view is rendered whichever fields are
\* missing, and a field that is found with a non-empty capture shows its own
\* capture whichever other fields are missing.
C3_MissingFieldShowsPlaceholder ==
    Rendered =>
        LET t == analysis
            v == view[1]
        IN
        /\ expertMatch(t) = NoMatch =>
               ShowsPlaceholder(v.expertOverview, <<"Expert overview will appear here after analysis.">>)
        /\ roastMatch(t) = NoMatch =>
               ShowsPlaceholder(v.roastLevel, <<"Roast level will appear after analysis">>)
        /\ originMatch(t) = NoMatch =>
               ShowsPlaceholder(v.origin, <<"Origin information will appear after analysis">>)
        /\ tastingMatch(t) = NoMatch =>
               ShowsPlaceholder(v.tastingNotes, <<"Tasting notes will appear after analysis">>)
        /\ \A k \in 1..5 :
               sectionMatch(t, SectionNames[k]) = NoMatch =>
                   ShowsPlaceholder(SectionShown(v, k), SectionPlaceholder(k))
        /\ expertMatch(t) # NoMatch /\ ~Blank(expertMatch(t)[1]) =>
               ShowsText(v.expertOverview, "text", Trim(expertMatch(t)[1]))
        /\ roastMatch(t) # NoMatch /\ parseInt(roastMatch(t)[1][1]) # 0 =>
               ShowsText(v.roastLevel, "roast", <<Numeral(parseInt(roastMatch(t)[1][1])), "/5">>)
        /\ originMatch(t) # NoMatch /\ regionMatch(t) = NoMatch =>
               ShowsText(v.origin, "text", Trim(originMatch(t)[1]))
        /\ tastingMatch(t) # NoMatch => v.tastingNotes.kind = "badges"
        /\ \A k \in 1..5 :
               sectionMatch(t, SectionNames[k]) # NoMatch /\ ~Blank(sectionMatch(t, SectionNames[k])[1]) =>
                   ShowsText(SectionShown(v, k), "text", Trim(sectionMatch(t, SectionNames[k])[1]))

\* a text without the Grade and Sourcing section, the roast line and the
\* expert overview, whose other fields are found, has been rendered
C3_Witness ==
    /\ Rendered
    /\ sectionMatch(analysis, GradeAndSourcing) = NoMatch
    /\ roastMatch(analysis) = NoMatch
    /\ expertMatch(analysis) = NoMatch
    /\ ShowsPlaceholder(view[1].gradeAndSourcing, SectionPlaceholder(2))
    /\ ShowsPlaceholder(view[1].roastLevel, <<"Roast level will appear after analysis">>)
    /\ ShowsText(view[1].aboutOrigin, "text", SectionBodies[1])
    /\ ShowsText(view[1].processingMethod, "text", SectionBodies[3])
    /\ ShowsText(view[1].origin, "text", <<"BRAZIL">>)

\* the five headings are in the text, each followed by its body
HasFiveSections(t) ==
    \A k \in 1..5 : \E hsep \in Separators : Includes(t, SectionNames[k] \o hsep \o SectionBodies[k])

\* C8: for every analysis text that holds the five in-depth headings, each
\* followed by its body, extractSection returns for each heading the body
\* of that section and nothing else, whether the sections are separated by
\* one newline or by a blank line.
C8_SectionBodyOnly ==
    Rendered /\ HasFiveSections(analysis) =>
        \A k \in 1..5 : extractSection(analysis, SectionNames[k]) = SectionBodies[k]

---------------------------------------------------------------------------
(* validateFile's verdicts *)

\* FileReader fires load or error for every read that was started
SpecUploadFair ==
    SpecUpload /\ WF_vars(\E u \in UploadIds, ok \in BOOLEAN : ValidateResolves(u, ok) /\ Completion)

C11_Accepts(f) ==
    /\ FileSize(f) <= 10 * 1024 * 1024
    /\ FileType(f) \in {"image/jpeg", "image/jpg", "image/png", "image/webp"}
    /\ HasSignature(FileHead(f))

\* C11: validateFile resolves true exactly for a file of at most
\* 10*1024*1024 bytes with an allowed MIME type and a JPEG, PNG or WEBP
\* signature in its first 12 bytes whose read succeeds; it resolves false on
\* a read error, and every call resolves. A handler keeps a file exactly if
\* validateFile resolved true for it: the files it passes over without a read
\* are not acceptable, the file it reads has passed the size and type
\* checks, and when the read ends the file is kept exactly if the read
\* succeeded and the file is acceptable.
C11_ValidateFileVerdict ==
    /\ [][\A u \in UploadIds :
            /\ \A ok \in BOOLEAN :
                  (uploads[u].pc = "validating" /\ ValidateResolves(u, ok)) =>
                      LET rec == uploads[u]
                          f == rec.files[rec.i]
                          kept == Append(rec.validFiles, f)
                          resolvedTrue ==
                              IF uploads'[u].pc = "validating"
                              THEN uploads'[u].validFiles = kept
                              ELSE uploadedImages' = uploadedImages \o kept
                          next == IF uploads'[u].pc = "validating"
                                  THEN uploads'[u].i ELSE Len(rec.files) + 1
                      IN
                      /\ resolvedTrue <=> (ok /\ C11_Accepts(f))
                      /\ ~ok => ~resolvedTrue
                      /\ \A k \in (rec.i + 1)..(next - 1) : ~C11_Accepts(rec.files[k])
            /\ (uploads[u].pc = "idle" /\ uploads'[u].pc = "validating") =>
                  /\ \A k \in 1..(uploads'[u].i - 1) : ~C11_Accepts(uploads'[u].files[k])
                  /\ uploads'[u].validFiles = <<>>
            /\ (uploads[u].pc = "idle" /\ uploads'[u].pc = "done") =>
                  /\ \A k \in 1..Len(uploads'[u].batch) : ~C11_Accepts(uploads'[u].batch[k])
                  /\ uploadedImages' = uploadedImages
            /\ uploads'[u].pc = "validating" =>
                  LET f == uploads'[u].files[uploads'[u].i] IN
                  /\ FileSize(f) <= 10 * 1024 * 1024
                  /\ FileType(f) \in {"image/jpeg", "image/jpg", "image/png", "image/webp"}]_vars
    /\ \A u \in UploadIds, k \in 1..6 :
          (uploads[u].pc = "validating" /\ uploads[u].i = k)
              ~> ~(uploads[u].pc = "validating" /\ uploads[u].i = k)

\* C11's case: the file of exactly the maximal size was accepted, and the
\* read of an acceptable file failed, so that it was rejected
C11_Witness ==
    /\ "b.png" \in Range(uploadedImages)
    /\ FileSize("b.png") = 10 * 1024 * 1024
    /\ alert = RejectedAlert("a.jpg")
    /\ C11_Accepts("a.jpg")
    /\ "a.jpg" \notin Range(uploadedImages)
    /\ \A u \in UploadIds : uploads[u].pc = "done"

---------------------------------------------------------------------------
(* Claims about overlapping submissions *)

\* a step appends a user message to the chat
AppendsUserMessage ==
    /\ Len(messages') = Len(messages) + 1
    /\ messages'[Len(messages')].role = "user"

\* C12: no user message is appended to the chat while a request is
\* loading; this holds for every append of the modal, the follow-up append
\* of the timer included.
C12_NoAppendWhileLoading == [][AppendsUserMessage => ~isLoading]_vars

\* the follow-up prompt of one submission is appended while the request of
\* a later submission is loading
C12_FollowUpWhileLoading ==
    \E s \in SubmitIds, k \in 2..Len(messages) :
        /\ messages[k] = UserMessage(s, FOLLOW_UP_ANALYSIS_PROMPT, <<>>)
        /\ messages[k - 1].role = "user"
        /\ messages[k - 1].sub # s
        /\ isLoading

\* submission v is still awaiting the compression of its images or its append
Awaiting(v) == subs[v].pc \in {"compressing", "append"}

\* C13: each batch of uploaded images is sent at most once: a submission
\* that starts while an earlier one is still awaiting the compression or the
\* append takes none of the files the earlier one took, so that they are not
\* attached to a second message and the analysis prompt is not appended
\* again for them. (A file held in the form while the earlier submission
\* awaits, under a name that submission took, is the file it took.)
C13_BatchSentOnce ==
    [][\A s, v \in SubmitIds :
        (s # v /\ Awaiting(v) /\ subs[s].pc = "idle" /\ subs'[s].pc # "idle")
            => Range(subs'[s].images) \cap Range(subs[v].images) = {}]_vars

\* the files of one batch are attached to the messages of two submissions,
\* both with the analysis prompt
C13_BatchSentTwice ==
    \E j, k \in 1..Len(messages) :
        /\ j < k
        /\ messages[j].sub # messages[k].sub
        /\ messages[j].content = COFFEE_ANALYSIS_PROMPT
        /\ messages[k].content = COFFEE_ANALYSIS_PROMPT
        /\ messages[j].attachments # <<>>
        /\ messages[j].attachments = messages[k].attachments
        /\ Awaiting(messages[j].sub)

\* the number of times f occurs in seq
Count(f, seq) == Cardinality({ k \in 1..Len(seq) : seq[k] = f })

\* C14: the setUploadedImages([]) at the end of a submission discards no
\* file that has not been sent: every file held in the form when a
\* submission clears it was taken by a submission.
C14_NoUnsentFileDiscarded ==
    [][\A s \in SubmitIds :
        (subs[s].pc = "append" /\ subs'[s].pc \in {"timer", "done"} /\ uploadedImages' = <<>>)
            => \A f \in Range(uploadedImages) :
                   \E v \in SubmitIds :
                       /\ subs[v].pc # "idle"
                       /\ Count(f, uploadedImages) <= Count(f, subs[v].images)]_vars

====
